---- MODULE Spec2Model ----
(***************************************************************************)
(* A model of the quality engine of seo_content_detector:                  *)
(*   streamlit_app/utils/scorer.py   (classifier, composite score,         *)
(*                                    interpretation)                      *)
(*   streamlit_app/utils/features.py (normalizer, feature extraction,      *)
(*                                    embedding model)                     *)
(*                                                                         *)
(* Spec        the two process-wide cached models and the calls that use   *)
(*             them, made by concurrent script threads.                    *)
(* Each of the others applies one function to every input of a bounded     *)
(* set:                                                                    *)
(* SpecScore   calculate_composite_score applied to feature dictionaries.  *)
(* SpecInterp  get_quality_score_interpretation applied to labels and      *)
(*             feature dictionaries.                                       *)
(* SpecFeat    extract_basic_features applied to texts.                    *)
(* SpecClean   clean_text applied to texts, and again to its own output.   *)
(* SpecThin    is_thin_content applied to counts and thresholds.           *)
(* SpecSim     calculate_similarity applied to pairs of texts, in both     *)
(*             orders.                                                     *)
(* SpecKeywords  extract_keywords applied to batches of documents.         *)
(*                                                                         *)
(* Real numbers (flesch_reading_ease, avg_word_length, scores) are exact   *)
(* fixed-point rationals.  The code computes them in binary floating       *)
(* point; every operation it applies to them (/, *, +, min, max) is        *)
(* monotone under rounding and exact at the values 0 and 1.0, which is     *)
(* what the properties stated here rest on.                                *)
(***************************************************************************)
EXTENDS Integers, Sequences, FiniteSets, TLC

(***************************************************************************)
(* Bounds of the model.                                                    *)
(***************************************************************************)
NumThreads == 2
MaxCalls == 3

Threads == 1..NumThreads
NoThread == 0

(***************************************************************************)
(* Values.                                                                 *)
(***************************************************************************)
Resources == {"classifier", "embedder"}

\* what a cache slot or a local `model` variable holds
NotCached == [kind |-> "NotCached", id |-> 0]
None == [kind |-> "None", id |-> 0]
Instance(n) == [kind |-> "instance", id |-> n]

\* the labels the trained classifier emits, and the fallback label
ModelLabels == {"High", "Medium", "Low"}
Unknown == "Unknown"

\* outcome of a call: nothing yet, a returned value, or a raised exception
NoResult == [kind |-> "none", value |-> ""]
Returned(v) == [kind |-> "return", value |-> v]
Raised(e) == [kind |-> "raise", value |-> e]

\* the feature dictionaries handed to predict_quality in this specification:
\* a complete one and one with fields missing (flesch_reading_ease and
\* avg_word_length in hundredths)
Get(f, k, d) == IF k \in DOMAIN f THEN f[k] ELSE d

CallFeatures ==
    { [word_count |-> 800, sentence_count |-> 40, flesch_reading_ease |-> 6050, avg_word_length |-> 470],
      [word_count |-> 100] }
NoFeatures == [none |-> 0]

VARIABLES
    artifact,    \* models/quality_model.pkl on disk: "present", "absent", "corrupt"
    hub,         \* the 'all-MiniLM-L6-v2' model: "available", "unavailable"
    cache,       \* st.cache_resource slot of each loader
    lock,        \* the thread computing each loader's value, or NoThread
    loads,       \* how many times each loader's body produced a value
    pc,          \* each thread's position
    op,          \* the engine function each thread is in
    argFeatures,    \* predict_quality's argument
    model,       \* the local `model` of predict_quality / generate_embeddings
    vector,      \* the feature vector predict_quality built
    prediction,  \* what model.predict did
    result,      \* what the call returned or raised
    errors,      \* st.error messages shown
    calls        \* calls made so far in the process

concVars == <<artifact, hub, cache, lock, loads, pc, op, argFeatures, model,
              vector, prediction, result, errors, calls>>

VARIABLES
    scoreIn,      \* the dictionary last given to calculate_composite_score
    scoreOut,     \* what it returned, in 1/ScoreDen
    scorePrevIn,  \* the dictionary of the call before, one field lower
    scorePrevOut, \* what that call returned
    scoreStep     \* "none", "scored" (a fresh dictionary), "raised" (one field raised)

scoreVars == <<scoreIn, scoreOut, scorePrevIn, scorePrevOut, scoreStep>>

VARIABLES
    interpQuality,     \* the label last given to get_quality_score_interpretation
    interpIn,          \* the dictionary given with it
    interpOut,         \* the dictionary it returned
    interpPrevQuality, \* the label of the call before, on the same dictionary
    interpPrevOut,     \* what that call returned
    interpStep         \* "none", "fresh", "relabelled"

interpVars == <<interpQuality, interpIn, interpOut, interpPrevQuality,
                interpPrevOut, interpStep>>

VARIABLES
    punkt,       \* the NLTK sentence tokenizer data: "installed", "missing"
    featText,    \* the argument last given to extract_basic_features
    featOut,     \* what the call returned or raised
    featApplied  \* the external functions the call applied to the text

featVars == <<punkt, featText, featOut, featApplied>>

VARIABLES
    cleanIn,     \* the argument last given to clean_text
    cleanOut,    \* what it returned
    cleanAgain,  \* clean_text of that result
    cleanStep    \* "none", "cleaned", "recleaned"

cleanVars == <<cleanIn, cleanOut, cleanAgain, cleanStep>>

VARIABLES
    thinArgs,    \* the arguments last given to is_thin_content
    thinOut      \* what it returned

thinVars == <<thinArgs, thinOut>>

VARIABLES
    simTexts,    \* the two texts last given to calculate_similarity
    simOut,      \* what it returned
    simPrevOut,  \* what the call before returned, for the texts the other way round
    simStep,     \* "none", "compared", "swapped"
    encoded      \* what the embedding model gave for each text it has encoded

simVars == <<simTexts, simOut, simPrevOut, simStep, encoded>>

VARIABLES
    kwTexts,     \* the batch last given to extract_keywords
    kwStage,     \* "none", "loop" (over the rows of the matrix), "done"
    kwFit,       \* the fitted vocabulary and the matrix of weights
    kwSelected,  \* per document done, the indices its keywords were taken from
    kwList,      \* keywords_list
    kwOut        \* what the call returned or raised

kwVars == <<kwTexts, kwStage, kwFit, kwSelected, kwList, kwOut>>

restVars == <<simVars, kwVars>>

moreVars == <<cleanVars, thinVars, simVars, kwVars>>

vars == <<concVars, scoreVars, interpVars, featVars, moreVars>>

InitConc ==
    /\ artifact \in {"present", "absent", "corrupt"}
    /\ hub \in {"available", "unavailable"}
    /\ cache = [r \in Resources |-> NotCached]
    /\ lock = [r \in Resources |-> NoThread]
    /\ loads = [r \in Resources |-> 0]
    /\ pc = [t \in Threads |-> "idle"]
    /\ op = [t \in Threads |-> "none"]
    /\ argFeatures = [t \in Threads |-> NoFeatures]
    /\ model = [t \in Threads |-> NotCached]
    /\ vector = [t \in Threads |-> <<>>]
    /\ prediction = [t \in Threads |-> NoResult]
    /\ result = [t \in Threads |-> NoResult]
    /\ errors = 0
    /\ calls = 0

(***************************************************************************)
(* The loaders' bodies.                                                    *)
(***************************************************************************)
\* scorer.py load_quality_model: joblib.load returns the model; a missing file
\* is caught and None returned after st.error; any other load error (a
\* truncated or foreign pickle) is not caught.
load_quality_model_NoExcept ==
    CASE artifact = "present" -> Returned(Instance(loads["classifier"] + 1))
      [] artifact = "absent"  -> Raised("FileNotFoundError")
      [] OTHER                -> Raised("UnpicklingError")

load_quality_model ==
    CASE artifact = "present" -> Returned(Instance(loads["classifier"] + 1))
      [] artifact = "absent"  -> Returned(None)
      [] OTHER                -> Raised("UnpicklingError")

\* features.py load_embedding_model: SentenceTransformer(name), no handler
load_embedding_model ==
    IF hub = "available"
    THEN Returned(Instance(loads["embedder"] + 1))
    ELSE Raised("OSError")

LoaderBody(r) == IF r = "classifier" THEN load_quality_model ELSE load_embedding_model

\* the resource an engine function reads through its cached loader
ResourceOf(o) == IF o = "predict_quality" THEN "classifier" ELSE "embedder"

(***************************************************************************)
(* @st.cache_resource: read the slot; on a miss take the slot's lock, read *)
(* again, run the body and store its value.  A body that raises stores     *)
(* nothing and the exception passes to the caller.                         *)
(***************************************************************************)
IsCachedNever(r) == FALSE

IsCached(r) == cache[r] # NotCached

Begin(t, o, f) ==
    /\ pc[t] = "idle"
    /\ calls < MaxCalls
    /\ calls' = calls + 1
    /\ op' = [op EXCEPT ![t] = o]
    /\ argFeatures' = [argFeatures EXCEPT ![t] = f]
    /\ model' = [model EXCEPT ![t] = NotCached]
    /\ vector' = [vector EXCEPT ![t] = <<>>]
    /\ prediction' = [prediction EXCEPT ![t] = NoResult]
    /\ result' = [result EXCEPT ![t] = NoResult]
    /\ UNCHANGED <<artifact, hub, cache, lock, loads, errors>>
    /\ UNCHANGED <<scoreVars, interpVars, featVars, moreVars>>

\* app.py: a script thread calls predict_quality(features)
CallPredictQuality(t) ==
    \E f \in CallFeatures :
        /\ Begin(t, "predict_quality", f)
        /\ pc' = [pc EXCEPT ![t] = "lookup"]

\* generate_embeddings(texts)
CallGenerateEmbeddings(t) ==
    /\ Begin(t, "generate_embeddings", NoFeatures)
    /\ pc' = [pc EXCEPT ![t] = "lookup"]

\* calculate_similarity(text1, text2): generate_embeddings([text1, text2])
CallCalculateSimilarity(t) ==
    /\ Begin(t, "calculate_similarity", NoFeatures)
    /\ pc' = [pc EXCEPT ![t] = "lookup"]

\* extract_all_features(text, include_embeddings): the embedding model is
\* reached only when include_embeddings is set
CallExtractAllFeatures(t) ==
    \E include_embeddings \in BOOLEAN :
        /\ Begin(t, "extract_all_features", NoFeatures)
        /\ pc' = [pc EXCEPT ![t] = IF include_embeddings THEN "lookup" ELSE "finish"]

\* cache read without the lock
Lookup(t) ==
    /\ pc[t] = "lookup"
    /\ LET r == ResourceOf(op[t]) IN
        IF IsCached(r)
        THEN /\ model' = [model EXCEPT ![t] = cache[r]]
             /\ pc' = [pc EXCEPT ![t] = "use"]
        ELSE /\ pc' = [pc EXCEPT ![t] = "acquire"]
             /\ UNCHANGED model
    /\ UNCHANGED <<artifact, hub, cache, lock, loads, op, argFeatures, vector,
                   prediction, result, errors, calls>>
    /\ UNCHANGED <<scoreVars, interpVars, featVars, moreVars>>

Acquire(t) ==
    /\ pc[t] = "acquire"
    /\ LET r == ResourceOf(op[t]) IN
        /\ lock[r] = NoThread
        /\ lock' = [lock EXCEPT ![r] = t]
    /\ pc' = [pc EXCEPT ![t] = "recheck"]
    /\ UNCHANGED <<artifact, hub, cache, loads, op, argFeatures, model, vector,
                   prediction, result, errors, calls>>
    /\ UNCHANGED <<scoreVars, interpVars, featVars, moreVars>>

\* second cache read, holding the lock
Recheck(t) ==
    /\ pc[t] = "recheck"
    /\ LET r == ResourceOf(op[t]) IN
        IF IsCached(r)
        THEN /\ model' = [model EXCEPT ![t] = cache[r]]
             /\ lock' = [lock EXCEPT ![r] = NoThread]
             /\ pc' = [pc EXCEPT ![t] = "use"]
        ELSE /\ pc' = [pc EXCEPT ![t] = "load"]
             /\ UNCHANGED <<model, lock>>
    /\ UNCHANGED <<artifact, hub, cache, loads, op, argFeatures, vector,
                   prediction, result, errors, calls>>
    /\ UNCHANGED <<scoreVars, interpVars, featVars, moreVars>>

\* the loader's body runs, holding the lock
Load(t) ==
    /\ pc[t] = "load"
    /\ LET r == ResourceOf(op[t])
           out == LoaderBody(r)
       IN
        /\ lock' = [lock EXCEPT ![r] = NoThread]
        /\ IF out.kind = "return"
           THEN /\ cache' = [cache EXCEPT ![r] = out.value]
                /\ loads' = [loads EXCEPT ![r] = @ + 1]
                /\ model' = [model EXCEPT ![t] = out.value]
                /\ errors' = IF out.value = None THEN errors + 1 ELSE errors
                /\ pc' = [pc EXCEPT ![t] = "use"]
                /\ UNCHANGED result
           ELSE /\ result' = [result EXCEPT ![t] = out]
                /\ pc' = [pc EXCEPT ![t] = "done"]
                /\ UNCHANGED <<cache, loads, model, errors>>
    /\ UNCHANGED <<artifact, hub, op, argFeatures, vector, prediction, calls>>
    /\ UNCHANGED <<scoreVars, interpVars, featVars, moreVars>>

(***************************************************************************)
(* predict_quality after the model is obtained (scorer.py 42-58).          *)
(***************************************************************************)
\* the DataFrame row, in the order the artifact was trained on; a missing
\* field is 0
FeatureVector(f) ==
    << Get(f, "word_count", 0), Get(f, "sentence_count", 0),
       Get(f, "flesch_reading_ease", 0), Get(f, "avg_word_length", 0) >>

\* what model.predict(feature_vector)[0] can do: give a label or raise
PredictOutcomes == {Returned(l) : l \in ModelLabels} \cup {Raised("ValueError")}

\* try: return prediction / except Exception: st.error(...); return 'Unknown'
PredictionResult_NoExcept(out) == out

PredictionResult(out) ==
    IF out.kind = "raise" THEN Returned(Unknown) ELSE Returned(out.value)

UsePredictQuality(t) ==
    /\ pc[t] = "use"
    /\ op[t] = "predict_quality"
    /\ IF model[t] = None
       THEN /\ result' = [result EXCEPT ![t] = Returned(Unknown)]
            /\ UNCHANGED <<vector, prediction, errors>>
       ELSE \E out \in PredictOutcomes :
            /\ vector' = [vector EXCEPT ![t] = FeatureVector(argFeatures[t])]
            /\ prediction' = [prediction EXCEPT ![t] = out]
            /\ result' = [result EXCEPT ![t] = PredictionResult(out)]
            /\ errors' = IF out.kind = "raise" THEN errors + 1 ELSE errors
    /\ pc' = [pc EXCEPT ![t] = "done"]
    /\ UNCHANGED <<artifact, hub, cache, lock, loads, op, argFeatures, model, calls>>
    /\ UNCHANGED <<scoreVars, interpVars, featVars, moreVars>>

\* generate_embeddings after the model is obtained: model.encode(clean_texts);
\* calculate_similarity and extract_all_features go on from its result
UseEmbeddingModel(t) ==
    /\ pc[t] = "use"
    /\ op[t] # "predict_quality"
    /\ result' = [result EXCEPT ![t] =
                    CASE op[t] = "generate_embeddings"  -> Returned("embeddings")
                      [] op[t] = "calculate_similarity" -> Returned("similarity")
                      [] OTHER                          -> Returned("features")]
    /\ pc' = [pc EXCEPT ![t] = "done"]
    /\ UNCHANGED <<artifact, hub, cache, lock, loads, op, argFeatures, model, vector,
                   prediction, errors, calls>>
    /\ UNCHANGED <<scoreVars, interpVars, featVars, moreVars>>

\* extract_all_features(text, include_embeddings=False) returns its features
FinishWithoutEmbeddings(t) ==
    /\ pc[t] = "finish"
    /\ result' = [result EXCEPT ![t] = Returned("features")]
    /\ pc' = [pc EXCEPT ![t] = "done"]
    /\ UNCHANGED <<artifact, hub, cache, lock, loads, op, argFeatures, model, vector,
                   prediction, errors, calls>>
    /\ UNCHANGED <<scoreVars, interpVars, featVars, moreVars>>

\* the call is over; the thread may make another
Return(t) ==
    /\ pc[t] = "done"
    /\ pc' = [pc EXCEPT ![t] = "idle"]
    /\ UNCHANGED <<artifact, hub, cache, lock, loads, op, argFeatures, model, vector,
                   prediction, result, errors, calls>>
    /\ UNCHANGED <<scoreVars, interpVars, featVars, moreVars>>

(***************************************************************************)
(* calculate_composite_score (scorer.py 140-163).                          *)
(***************************************************************************)
\* fixed-point resolution: flesch_reading_ease and avg_word_length are
\* counted in 1/Scale
Scale == 100

WordCap == 2000
WordWeight == 30
FleschCap == 100
ReadabilityWeight == 40
SentenceCap == 50
SentenceWeight == 20
LengthCap == 6
LengthWeight == 10
MaxScore == 100

Min(a, b) == IF a <= b THEN a ELSE b
Max(a, b) == IF a >= b THEN a ELSE b

Gcd(a, b) ==
    LET RECURSIVE G(_, _)
        G(x, y) == IF y = 0 THEN x ELSE G(y, x % y)
    IN G(a, b)
Lcm(a, b) == (a * b) \div Gcd(a, b)

\* scores are counted in 1/ScoreDen, a multiple of every divisor the formula
\* uses, so that each quotient is exact
ScoreDen == Lcm(Lcm(WordCap, SentenceCap), Lcm(FleschCap * Scale, LengthCap * Scale))

FeatureKeys == {"word_count", "sentence_count", "flesch_reading_ease", "avg_word_length"}

\* the values each field takes in SpecScore: below, at and above the caps,
\* and for flesch_reading_ease below zero and above 100
Samples(k) ==
    CASE k = "word_count"          -> {0, WordCap \div 2, WordCap, WordCap + 1000}
      [] k = "sentence_count"      -> {0, SentenceCap \div 2, SentenceCap, SentenceCap + 30}
      [] k = "flesch_reading_ease" -> {-2550, 0, (FleschCap \div 2) * Scale,
                                       FleschCap * Scale, 12122}
      [] OTHER                     -> {0, (LengthCap \div 2) * Scale, LengthCap * Scale,
                                       LengthCap * Scale + 350}

\* every dictionary over a subset of the four keys
FeatureSets ==
    UNION { { f \in [D -> UNION {Samples(k) : k \in FeatureKeys}] :
                \A k \in D : f[k] \in Samples(k) } : D \in SUBSET FeatureKeys }

\* min(x / cap, 1.0) * weight, in 1/ScoreDen (x and cap in the same unit)
ComponentZeroAboveCap(x, cap, weight) ==
    IF x > cap THEN 0 ELSE weight * (x * (ScoreDen \div cap))

Component(x, cap, weight) ==
    weight * Min(x * (ScoreDen \div cap), ScoreDen)

calculate_composite_score_NoFloor(features) ==
    LET word_count == Get(features, "word_count", 0)
        sentence_count == Get(features, "sentence_count", 0)
        flesch == Get(features, "flesch_reading_ease", 0)
        avg_word_length == Get(features, "avg_word_length", 0)
        word_score == Component(word_count, WordCap, WordWeight)
        readability_score == Component(flesch, FleschCap * Scale, ReadabilityWeight)
        sentence_score == Component(sentence_count, SentenceCap, SentenceWeight)
        word_length_score == Component(avg_word_length, LengthCap * Scale, LengthWeight)
        total == word_score + readability_score + sentence_score + word_length_score
    IN Min(total, MaxScore * ScoreDen)

calculate_composite_score_SwappedWeights(features) ==
    LET word_count == Get(features, "word_count", 0)
        sentence_count == Get(features, "sentence_count", 0)
        flesch == Get(features, "flesch_reading_ease", 0)
        avg_word_length == Get(features, "avg_word_length", 0)
        word_score == Component(word_count, WordCap, ReadabilityWeight)
        readability_score == Component(Max(flesch, 0), FleschCap * Scale, WordWeight)
        sentence_score == Component(sentence_count, SentenceCap, SentenceWeight)
        word_length_score == Component(avg_word_length, LengthCap * Scale, LengthWeight)
        total == word_score + readability_score + sentence_score + word_length_score
    IN Min(total, MaxScore * ScoreDen)

calculate_composite_score(features) ==
    LET word_count == Get(features, "word_count", 0)
        sentence_count == Get(features, "sentence_count", 0)
        flesch == Get(features, "flesch_reading_ease", 0)
        avg_word_length == Get(features, "avg_word_length", 0)
        word_score == Component(word_count, WordCap, WordWeight)
        readability_score == Component(Max(flesch, 0), FleschCap * Scale, ReadabilityWeight)
        sentence_score == Component(sentence_count, SentenceCap, SentenceWeight)
        word_length_score == Component(avg_word_length, LengthCap * Scale, LengthWeight)
        total == word_score + readability_score + sentence_score + word_length_score
    IN Min(total, MaxScore * ScoreDen)

InitScore ==
    /\ scoreIn = NoFeatures
    /\ scoreOut = 0
    /\ scorePrevIn = NoFeatures
    /\ scorePrevOut = 0
    /\ scoreStep = "none"

\* the dictionary f with field k set to v
WithField(f, k, v) ==
    [x \in (DOMAIN f) \cup {k} |-> IF x = k THEN v ELSE f[x]]

\* a caller scores a dictionary
Score ==
    \E f \in FeatureSets :
        /\ scoreStep = "none"
        /\ scoreIn' = f
        /\ scoreOut' = calculate_composite_score(f)
        /\ scorePrevIn' = NoFeatures
        /\ scorePrevOut' = 0
        /\ scoreStep' = "scored"
        /\ UNCHANGED <<concVars, interpVars, featVars, moreVars>>

\* a caller scores the last dictionary again with one field raised (a missing
\* field counts as 0) and the other three as they were
ScoreRaised ==
    /\ scoreStep # "none"
    /\ \E k \in FeatureKeys :
        \E v \in Samples(k) :
            /\ v > Get(scoreIn, k, 0)
            /\ scoreIn' = WithField(scoreIn, k, v)
            /\ scoreOut' = calculate_composite_score(WithField(scoreIn, k, v))
            /\ scorePrevIn' = scoreIn
            /\ scorePrevOut' = scoreOut
            /\ scoreStep' = "raised"
    /\ UNCHANGED <<concVars, interpVars, featVars, moreVars>>

NextScore == Score \/ ScoreRaised

(***************************************************************************)
(* get_quality_score_interpretation (scorer.py 61-123).                    *)
(***************************************************************************)
ThinWords == 500
OptimalWords == 1500
HardFlesch == 30
FairFlesch == 50

\* the labels a caller passes: the four of the table and one outside it
Qualities == ModelLabels \cup {Unknown, "Excellent"}

\* the table `interpretations`
interpretations ==
    [ High    |-> [emoji |-> "green circle",
                   message |-> "Excellent content quality!",
                   description |-> "This content has strong indicators of high quality with good length and readability.",
                   recommendations |-> <<>>],
      Medium  |-> [emoji |-> "yellow circle",
                   message |-> "Good content, but room for improvement",
                   description |-> "This content meets basic quality standards but could be enhanced.",
                   recommendations |-> <<>>],
      Low     |-> [emoji |-> "red circle",
                   message |-> "Content needs significant improvement",
                   description |-> "This content falls short of quality standards.",
                   recommendations |-> <<>>],
      Unknown |-> [emoji |-> "white circle",
                   message |-> "Unable to assess quality",
                   description |-> "Quality assessment unavailable.",
                   recommendations |-> <<>>] ]

\* the decimal digits of n >= 0, as characters
DigitChar(d) == <<"0", "1", "2", "3", "4", "5", "6", "7", "8", "9">>[d + 1]

RECURSIVE Digits(_)
Digits(n) == IF n < 10 THEN <<DigitChar(n)>> ELSE Digits(n \div 10) \o <<DigitChar(n % 10)>>

\* n/d rounded to the nearest integer, ties to even (n >= 0, d > 0)
RoundHalfEven(n, d) ==
    LET q == n \div d
        r == n % d
    IN CASE 2 * r < d -> q
         [] 2 * r > d -> q + 1
         [] OTHER     -> IF q % 2 = 0 THEN q ELSE q + 1

\* "{0:.1f}".format(x): x, given in 1/Scale, with one decimal: the sign of x,
\* then |x| rounded to tenths (an exact tie is rounded to even here; Python
\* rounds the binary value of the float, which is rarely an exact tie)
Format1f(x) ==
    LET a == IF x < 0 THEN -x ELSE x
        tenths == RoundHalfEven(10 * a, Scale)
    IN (IF x < 0 THEN <<"-">> ELSE <<>>)
       \o Digits(tenths \div 10) \o <<".", DigitChar(tenths % 10)>>

\* "{0}".format(word_count): the digits of the count
Format0(n) == Digits(n)

\* the recommendation texts, each with the value it cites
MsgIncreaseLength(n) ==
    <<"Increase content length (current: {0} words, recommended: 500+ words)", Format0(n)>>
MsgExpand(n) ==
    <<"Consider expanding content (current: {0} words, optimal: 1500+ words)", Format0(n)>>
MsgSimplify(x) ==
    <<"Simplify language for better readability (Flesch score: {0:.1f}/100)", Format1f(x)>>
MsgImprove(x) ==
    <<"Improve readability with simpler sentences (Flesch score: {0:.1f}/100)", Format1f(x)>>
MsgReview == <<"Review content structure and add more value">>
MsgFocus == <<"Focus on user intent and comprehensive coverage">>

\* scorer.py 107-110
LengthRecommendations_BothIfs(word_count) ==
    (IF word_count < ThinWords THEN <<MsgIncreaseLength(word_count)>> ELSE <<>>)
    \o (IF word_count < OptimalWords THEN <<MsgExpand(word_count)>> ELSE <<>>)

LengthRecommendations(word_count) ==
    IF word_count < ThinWords THEN <<MsgIncreaseLength(word_count)>>
    ELSE IF word_count < OptimalWords THEN <<MsgExpand(word_count)>>
    ELSE <<>>

\* scorer.py 112-115 (flesch and the thresholds in 1/Scale)
ReadabilityRecommendations(flesch) ==
    IF flesch < HardFlesch * Scale THEN <<MsgSimplify(flesch)>>
    ELSE IF flesch < FairFlesch * Scale THEN <<MsgImprove(flesch)>>
    ELSE <<>>

\* scorer.py 117-119
LabelRecommendations_NotHigh(quality) ==
    IF quality # "High" THEN <<MsgReview, MsgFocus>> ELSE <<>>

LabelRecommendations(quality) ==
    IF quality = "Low" THEN <<MsgReview, MsgFocus>> ELSE <<>>

get_quality_score_interpretation_Labelled(quality, features) ==
    LET word_count == Get(features, "word_count", 0)
        flesch == Get(features, "flesch_reading_ease", 0)
        template == IF quality \in DOMAIN interpretations
                    THEN interpretations[quality]
                    ELSE interpretations[Unknown]
        recommendations == LengthRecommendations(word_count)
                           \o ReadabilityRecommendations(flesch)
                           \o LabelRecommendations(quality)
    IN [label |-> quality,
        emoji |-> template.emoji,
        message |-> template.message,
        description |-> template.description,
        recommendations |-> recommendations]

get_quality_score_interpretation(quality, features) ==
    LET word_count == Get(features, "word_count", 0)
        flesch == Get(features, "flesch_reading_ease", 0)
        template == IF quality \in DOMAIN interpretations
                    THEN interpretations[quality]
                    ELSE interpretations[Unknown]
        recommendations == LengthRecommendations(word_count)
                           \o ReadabilityRecommendations(flesch)
                           \o LabelRecommendations(quality)
    IN [template EXCEPT !.recommendations = recommendations]

\* the dictionaries given in SpecInterp: the two fields the function reads,
\* each missing or on either side of its thresholds
InterpSamples(k) ==
    IF k = "word_count"
    THEN {0, 100, ThinWords - 1, ThinWords, OptimalWords - 1, OptimalWords, 3000}
    ELSE {-2550, 20 * Scale, HardFlesch * Scale - 1, HardFlesch * Scale,
          FairFlesch * Scale - 1, FairFlesch * Scale, 90 * Scale}

InterpFeatureSets ==
    UNION { { f \in [D -> InterpSamples("word_count") \cup InterpSamples("flesch_reading_ease")] :
                \A k \in D : f[k] \in InterpSamples(k) }
            : D \in SUBSET {"word_count", "flesch_reading_ease"} }

NoInterpretation ==
    [emoji |-> "", message |-> "", description |-> "", recommendations |-> <<>>]

InitInterp ==
    /\ interpQuality = ""
    /\ interpIn = NoFeatures
    /\ interpOut = NoInterpretation
    /\ interpPrevQuality = ""
    /\ interpPrevOut = NoInterpretation
    /\ interpStep = "none"

\* a caller interprets a label and a dictionary
Interpret ==
    \E q \in Qualities, f \in InterpFeatureSets :
        /\ interpStep = "none"
        /\ interpQuality' = q
        /\ interpIn' = f
        /\ interpOut' = get_quality_score_interpretation(q, f)
        /\ interpPrevQuality' = ""
        /\ interpPrevOut' = NoInterpretation
        /\ interpStep' = "fresh"
        /\ UNCHANGED <<concVars, scoreVars, featVars, moreVars>>

\* a caller interprets the same dictionary under another label
InterpretRelabelled ==
    /\ interpStep # "none"
    /\ \E q \in Qualities \ {interpQuality} :
        /\ interpQuality' = q
        /\ interpOut' = get_quality_score_interpretation(q, interpIn)
        /\ interpPrevQuality' = interpQuality
        /\ interpPrevOut' = interpOut
        /\ interpStep' = "relabelled"
        /\ UNCHANGED interpIn
    /\ UNCHANGED <<concVars, scoreVars, featVars, moreVars>>

NextInterp == Interpret \/ InterpretRelabelled

(***************************************************************************)
(* clean_text and extract_basic_features (features.py 18-78).              *)
(***************************************************************************)
\* longest text given to extract_basic_features
MaxLen == 3

\* the characters of the texts: a lowercase and an uppercase letter, a
\* sentence end, and three kinds of whitespace
Alphabet == {"a", "B", ".", " ", "\t", "\n"}

IsSpace(c) == c \in {" ", "\t", "\n"}

LowerChar(c) ==
    CASE c = "B" -> "b"
      [] c = "N" -> "n"
      [] OTHER   -> c

\* the arguments: strings, and two values that are not strings
StrValue(s) == [type |-> "str", chars |-> s]
NoneValue == [type |-> "NoneType", chars |-> <<>>]
IntValue == [type |-> "int", chars |-> <<"7">>]

Strings == UNION { [1..n -> Alphabet] : n \in 0..MaxLen }
TextInputs == {StrValue(s) : s \in Strings} \cup {NoneValue, IntValue}

\* str(text)
PyStr(text) ==
    CASE text.type = "str"      -> text.chars
      [] text.type = "NoneType" -> <<"N", "o", "n", "e">>
      [] OTHER                  -> text.chars

\* str.lower()
Lower(s) == [i \in 1..Len(s) |-> LowerChar(s[i])]

\* re.sub(r'\s+', ' ', s): every maximal run of whitespace becomes one space
RECURSIVE CollapseWhitespace(_)
CollapseWhitespace(s) ==
    IF s = <<>> THEN <<>>
    ELSE IF IsSpace(Head(s))
         THEN IF Len(s) > 1 /\ IsSpace(s[2])
              THEN CollapseWhitespace(Tail(s))
              ELSE <<" ">> \o CollapseWhitespace(Tail(s))
         ELSE <<Head(s)>> \o CollapseWhitespace(Tail(s))

\* str.strip()
RECURSIVE LStrip(_)
LStrip(s) ==
    IF s # <<>> /\ IsSpace(Head(s)) THEN LStrip(Tail(s)) ELSE s

RECURSIVE RStrip(_)
RStrip(s) ==
    IF s # <<>> /\ IsSpace(s[Len(s)]) THEN RStrip(SubSeq(s, 1, Len(s) - 1)) ELSE s

Strip_LeftOnly(s) == LStrip(s)

Strip(s) == RStrip(LStrip(s))

clean_text(text) == Strip(CollapseWhitespace(Lower(PyStr(text))))

\* str.split(): the maximal runs of characters that are not whitespace
RECURSIVE SplitFrom(_, _)
SplitFrom(s, word) ==
    IF s = <<>>
    THEN IF word = <<>> THEN <<>> ELSE <<word>>
    ELSE IF IsSpace(Head(s))
         THEN (IF word = <<>> THEN <<>> ELSE <<word>>) \o SplitFrom(Tail(s), <<>>)
         ELSE SplitFrom(Tail(s), Append(word, Head(s)))

Split(s) == SplitFrom(s, <<>>)

RECURSIVE SumLen(_)
SumLen(words) == IF words = <<>> THEN 0 ELSE Len(Head(words)) + SumLen(Tail(words))

\* float(np.mean([len(w) for w in words])), in 1/Scale (cut to the resolution)
MeanLen(words) == (Scale * SumLen(words)) \div Len(words)

\* the truth value of a string in `... if clean else 0`
TruthyAlways(s) == TRUE

Truthy(s) == s # <<>>

\* what the external functions can answer: nltk.sent_tokenize gives no
\* sentence for the empty string and between one sentence and one per word
\* otherwise; textstat.flesch_reading_ease gives some score
SentenceCounts(clean) == IF clean = <<>> THEN {0} ELSE 1..Len(Split(clean))
FleschScores == {-2550, 0, 6050, 12122}

InitFeat ==
    /\ punkt \in {"installed", "missing"}
    /\ featText = NoneValue
    /\ featOut = NoResult
    /\ featApplied = {}

\* extract_basic_features(text).  ensure_nltk_data looks for the tokenizer
\* data and downloads it when missing; the download may fail without raising,
\* and sent_tokenize then raises LookupError.
ExtractBasicFeatures ==
    \E text \in TextInputs, downloaded \in BOOLEAN :
        LET clean == clean_text(text)
            words == Split(clean)
            word_count == Len(words)
            avg_word_length == IF words # <<>> THEN MeanLen(words) ELSE 0
            tokenize == Truthy(clean)
            readability == Truthy(clean)
        IN
        /\ featOut = NoResult
        /\ punkt = "installed" => ~downloaded
        /\ punkt' = IF downloaded THEN "installed" ELSE punkt
        /\ featText' = text
        /\ IF tokenize /\ punkt' = "missing"
           THEN /\ featOut' = Raised("LookupError")
                /\ featApplied' = {"sent_tokenize"}
           ELSE \E sentence_count \in (IF tokenize THEN SentenceCounts(clean) ELSE {0}),
                   flesch_score \in (IF readability THEN FleschScores ELSE {0}) :
                /\ featOut' = Returned([word_count |-> word_count,
                                        sentence_count |-> sentence_count,
                                        flesch_reading_ease |-> flesch_score,
                                        avg_word_length |-> avg_word_length])
                /\ featApplied' = (IF tokenize THEN {"sent_tokenize"} ELSE {})
                                  \cup (IF readability THEN {"flesch_reading_ease"} ELSE {})
        /\ UNCHANGED <<concVars, scoreVars, interpVars, moreVars>>

NextFeat == ExtractBasicFeatures

(***************************************************************************)
(* clean_text on its own (features.py 33-45).                              *)
(***************************************************************************)
\* longest text given to clean_text on its own
MaxCleanLen == 4

CleanInputs ==
    {StrValue(s) : s \in UNION { [1..n -> Alphabet] : n \in 0..MaxCleanLen }}
    \cup {NoneValue, IntValue}

InitClean ==
    /\ cleanIn = NoneValue
    /\ cleanOut = <<>>
    /\ cleanAgain = <<>>
    /\ cleanStep = "none"

\* a caller cleans a text
Clean ==
    /\ cleanStep = "none"
    /\ \E text \in CleanInputs :
        /\ cleanIn' = text
        /\ cleanOut' = clean_text(text)
        /\ cleanStep' = "cleaned"
    /\ UNCHANGED <<cleanAgain, thinVars, restVars>>
    /\ UNCHANGED <<concVars, scoreVars, interpVars, featVars>>

\* the caller cleans the result once more
CleanAgain ==
    /\ cleanStep = "cleaned"
    /\ cleanAgain' = clean_text(StrValue(cleanOut))
    /\ cleanStep' = "recleaned"
    /\ UNCHANGED <<cleanIn, cleanOut, thinVars, restVars>>
    /\ UNCHANGED <<concVars, scoreVars, interpVars, featVars>>

NextClean == Clean \/ CleanAgain

(***************************************************************************)
(* is_thin_content (scorer.py 126-137).                                    *)
(***************************************************************************)
DefaultThreshold == 500

is_thin_content_Inclusive(word_count, threshold) == word_count <= threshold

is_thin_content(word_count, threshold) == word_count < threshold

\* the thresholds passed, and the counts on both sides of each of them
ThinThresholds == {0, 1, 300, DefaultThreshold, DefaultThreshold + 1, 1000, 1500}
ThinCounts ==
    {n \in UNION {{t - 1, t, t + 1} : t \in ThinThresholds} : n >= 0} \cup {5000}

\* the calls: with the threshold left to its default, or given
ThinCalls ==
    {[word_count |-> n] : n \in ThinCounts}
    \cup {[word_count |-> n, threshold |-> t] : n \in ThinCounts, t \in ThinThresholds}

InitThin ==
    /\ thinArgs = NoFeatures
    /\ thinOut = FALSE

IsThinContent ==
    /\ thinArgs = NoFeatures
    /\ \E args \in ThinCalls :
        /\ thinArgs' = args
        /\ thinOut' = is_thin_content(args.word_count,
                                      Get(args, "threshold", DefaultThreshold))
    /\ UNCHANGED <<cleanVars, restVars>>
    /\ UNCHANGED <<concVars, scoreVars, interpVars, featVars>>

NextThin == IsThinContent

(***************************************************************************)
(* generate_embeddings and calculate_similarity (features.py 123-136,      *)
(* 164-179), with the embedding model loaded.                              *)
(***************************************************************************)
\* longest text given to calculate_similarity
MaxSimLen == 2

SimAlphabet == {"a", "B", " "}
SimTexts ==
    {StrValue(s) : s \in UNION { [1..n -> SimAlphabet] : n \in 0..MaxSimLen }}
    \cup {NoneValue}

\* the truth value of an argument in `clean_text(t) if t else ''`
PyTruthy(text) ==
    CASE text.type = "str"      -> text.chars # <<>>
      [] text.type = "NoneType" -> FALSE
      [] OTHER                  -> TRUE

\* clean_text(t) if t else ''
CleanOrEmpty(text) == IF PyTruthy(text) THEN clean_text(text) ELSE <<>>

\* the vectors model.encode can give (two dimensions stand for the 384)
Vectors == {<<1, 0>>, <<0, 1>>, <<1, 1>>, <<-1, 2>>}

\* clean_texts of generate_embeddings
CleanTexts(texts) == [i \in 1..Len(texts) |-> CleanOrEmpty(texts[i])]

\* what model.encode(clean_texts) can return: the model is a function of the
\* text, so a text encoded before gets the vector it got then, equal texts
\* get equal vectors, and a new text may get any vector
Encodings(clean_texts) ==
    { embeddings \in [1..Len(clean_texts) -> Vectors] :
        /\ \A i \in 1..Len(clean_texts) :
              clean_texts[i] \in DOMAIN encoded =>
                  embeddings[i] = encoded[clean_texts[i]]
        /\ \A i, j \in 1..Len(clean_texts) :
              clean_texts[i] = clean_texts[j] => embeddings[i] = embeddings[j] }

\* the texts the model has encoded so far, each with its vector
Remembered(clean_texts, embeddings) ==
    encoded @@
    [c \in {clean_texts[i] : i \in 1..Len(clean_texts)} |->
        embeddings[CHOOSE i \in 1..Len(clean_texts) : clean_texts[i] = c]]

Dot(a, b) == a[1] * b[1] + a[2] * b[2]

\* sklearn cosine_similarity of two rows: a.b / (|a| |b|), kept exactly as
\* the signed square <<sign(a.b) * (a.b)^2, |a|^2 |b|^2>> in lowest terms
CosineSimilarity_ByFirstNorm(a, b) ==
    LET d == Dot(a, b)
        n == Dot(a, a) * Dot(a, a)
        sq == d * d
        g == Gcd(sq, n)
    IN IF n = 0 THEN <<0, 1>>
       ELSE <<(IF d < 0 THEN -1 ELSE 1) * (sq \div g), n \div g>>

CosineSimilarity(a, b) ==
    LET d == Dot(a, b)
        n == Dot(a, a) * Dot(b, b)
        sq == d * d
        g == Gcd(sq, n)
    IN IF n = 0 THEN <<0, 1>>
       ELSE <<(IF d < 0 THEN -1 ELSE 1) * (sq \div g), n \div g>>

\* calculate_similarity, generate_embeddings having returned embeddings
calculate_similarity(embeddings) ==
    CosineSimilarity(embeddings[1], embeddings[2])

InitSim ==
    /\ simTexts = <<NoneValue, NoneValue>>
    /\ simOut = <<0, 1>>
    /\ simPrevOut = <<0, 1>>
    /\ simStep = "none"
    /\ encoded = <<>>

\* a caller compares two texts
Similarity ==
    /\ simStep = "none"
    /\ \E text1 \in SimTexts, text2 \in SimTexts :
        \E embeddings \in Encodings(CleanTexts(<<text1, text2>>)) :
            /\ simTexts' = <<text1, text2>>
            /\ encoded' = Remembered(CleanTexts(<<text1, text2>>), embeddings)
            /\ simOut' = calculate_similarity(embeddings)
            /\ simStep' = "compared"
    /\ UNCHANGED <<simPrevOut, cleanVars, thinVars, kwVars>>
    /\ UNCHANGED <<concVars, scoreVars, interpVars, featVars>>

\* the caller compares the same two texts the other way round
SimilaritySwapped ==
    /\ simStep = "compared"
    /\ \E embeddings \in Encodings(CleanTexts(<<simTexts[2], simTexts[1]>>)) :
        /\ simTexts' = <<simTexts[2], simTexts[1]>>
        /\ encoded' = Remembered(CleanTexts(<<simTexts[2], simTexts[1]>>), embeddings)
        /\ simPrevOut' = simOut
        /\ simOut' = calculate_similarity(embeddings)
        /\ simStep' = "swapped"
    /\ UNCHANGED <<cleanVars, thinVars, kwVars>>
    /\ UNCHANGED <<concVars, scoreVars, interpVars, featVars>>

NextSim == Similarity \/ SimilaritySwapped

(***************************************************************************)
(* extract_keywords (features.py 81-120).  TfidfVectorizer is modelled by  *)
(* what its defaults and the three given parameters do: tokens are runs of *)
(* two or more word characters, English stop words are dropped, a term is  *)
(* kept when at least min_df documents hold it, the kept terms are sorted, *)
(* and a term's weight in a document is its count times its idf.  The cap  *)
(* of 1000 features never binds on vocabularies this small.  The L2        *)
(* normalisation of a row scales it by a positive factor (a zero row stays *)
(* zero), which changes neither the order nor the sign of its weights, so  *)
(* weights are kept unnormalised, in thousandths.                          *)
(***************************************************************************)
\* most documents in a batch
MaxDocs == 2

\* top_n as every caller leaves or passes it
TopN == 5

TermAB == <<"a", "b">>
TermAC == <<"a", "c">>
TermAD == <<"a", "d">>
TermBA == <<"b", "a">>
TermBB == <<"b", "b">>
TermCA == <<"c", "a">>

\* the members of sklearn's English stop word list that the documents use
StopWords == {<<"b", "e">>}

RECURSIVE Sentence(_)
Sentence(words) ==
    IF words = <<>> THEN <<>>
    ELSE IF Len(words) = 1 THEN words[1]
    ELSE words[1] \o <<" ">> \o Sentence(Tail(words))

DocSamples ==
    { StrValue(<<>>),
      NoneValue,
      StrValue(<<"b", "e", " ", "a", " ", ".">>),
      StrValue(<<"a", "B", " ", "\t", "a", "c">>),
      StrValue(Sentence(<<TermAB, TermAB, TermAC>>)),
      StrValue(Sentence(<<TermAD>>)),
      StrValue(Sentence(<<TermAB, TermAB, TermAB, TermAC, TermAC, TermAC,
                          TermAD, TermAD, TermBA, TermBA, TermBB, TermCA>>)) }

Batches == UNION { [1..n -> DocSamples] : n \in 0..MaxDocs }

\* \w of the token pattern
IsWordChar(c) == c \notin {" ", "\t", "\n", "."}

\* the runs of word characters of s, in order; run is the one being read
RECURSIVE WordRuns(_, _)
WordRuns(s, run) ==
    IF s = <<>> THEN (IF run = <<>> THEN <<>> ELSE <<run>>)
    ELSE IF IsWordChar(Head(s)) THEN WordRuns(Tail(s), Append(run, Head(s)))
    ELSE (IF run = <<>> THEN <<>> ELSE <<run>>) \o WordRuns(Tail(s), <<>>)

IsToken(w) == Len(w) >= 2
NotStopWord(w) == w \notin StopWords

\* the analyzer: token_pattern \b\w\w+\b, then stop word removal
Analyze(doc) == SelectSeq(SelectSeq(WordRuns(doc, <<>>), IsToken), NotStopWord)

CodePoint(c) ==
    CASE c = "7" -> 55
      [] c = "a" -> 97
      [] c = "b" -> 98
      [] c = "c" -> 99
      [] c = "d" -> 100
      [] c = "e" -> 101
      [] c = "n" -> 110
      [] c = "o" -> 111
      [] OTHER   -> 0

\* Python's order of strings
RECURSIVE StrLeq(_, _)
StrLeq(s, t) ==
    IF s = <<>> THEN TRUE
    ELSE IF t = <<>> THEN FALSE
    ELSE IF CodePoint(Head(s)) < CodePoint(Head(t)) THEN TRUE
    ELSE IF CodePoint(Head(s)) > CodePoint(Head(t)) THEN FALSE
    ELSE StrLeq(Tail(s), Tail(t))

RECURSIVE SortedTerms(_)
SortedTerms(terms) ==
    IF terms = {} THEN <<>>
    ELSE LET first == CHOOSE t \in terms : \A u \in terms : StrLeq(t, u)
         IN <<first>> \o SortedTerms(terms \ {first})

\* 1000 * ln(k), rounded
LnMilli == <<0, 693, 1099, 1386, 1609, 1792, 1946, 2079>>

\* smooth idf, ln((1 + n) / (1 + df)) + 1, in thousandths
Idf(n, df) == 1000 + LnMilli[1 + n] - LnMilli[1 + df]

RECURSIVE Count(_, _)
Count(tokens, term) ==
    IF tokens = <<>> THEN 0
    ELSE (IF Head(tokens) = term THEN 1 ELSE 0) + Count(Tail(tokens), term)

Range(s) == {s[i] : i \in 1..Len(s)}

NoFit == [status |-> "none", feature_names |-> <<>>, matrix |-> <<>>]
FitRaised == [status |-> "raised", feature_names |-> <<>>, matrix |-> <<>>]

\* vectorizer.fit_transform(clean_texts) with min_df as given, and
\* get_feature_names_out()
fit_transform(clean_texts, min_df) ==
    LET n == Len(clean_texts)
        tokens == [i \in 1..n |-> Analyze(clean_texts[i])]
        terms == UNION {Range(tokens[i]) : i \in 1..n}
        df(t) == Cardinality({i \in 1..n : t \in Range(tokens[i])})
        kept == {t \in terms : df(t) >= min_df}
        feature_names == SortedTerms(kept)
    IN IF terms = {} \/ kept = {} THEN FitRaised
       ELSE [status |-> "ok",
             feature_names |-> feature_names,
             matrix |-> [i \in 1..n |->
                           [j \in 1..Len(feature_names) |->
                              Count(tokens[i], feature_names[j])
                                * Idf(n, df(feature_names[j]))]]]

\* what doc_vector.argsort()[-top_n:] can be: the last top_n places of any
\* ascending order of the indices; numpy's default sort is not stable, so
\* places of equal weight may come in any order
RECURSIVE ArgsortTails(_, _, _)
ArgsortTails(doc_vector, indices, top_n) ==
    IF top_n = 0 \/ indices = {} THEN {<<>>}
    ELSE UNION { { Append(rest, i) :
                     rest \in ArgsortTails(doc_vector, indices \ {i}, top_n - 1) } :
                 i \in {j \in indices : \A k \in indices : doc_vector[k] <= doc_vector[j]} }

\* [::-1]
Reversed_Not(s) == s

Reversed(s) == [i \in 1..Len(s) |-> s[Len(s) + 1 - i]]

\* "|".join(keywords)
RECURSIVE JoinPipe(_)
JoinPipe(keywords) ==
    IF keywords = <<>> THEN <<>>
    ELSE IF Len(keywords) = 1 THEN keywords[1]
    ELSE keywords[1] \o <<"|">> \o JoinPipe(Tail(keywords))

\* the indices the comprehension of line 114 keeps, given the argsort tail
KeptIndices(doc_vector, tail) ==
    LET Positive(i) == doc_vector[i] > 0
    IN SelectSeq(Reversed(tail), Positive)

\* return [''] * len(texts) in the except clause
KeywordsOnFailure_Reraise(n) == Raised("ValueError")

KeywordsOnFailure(n) == Returned([i \in 1..n |-> <<>>])

\* not texts or all(not t for t in texts)
NothingToExtract(texts) == \A i \in 1..Len(texts) : ~PyTruthy(texts[i])

InitKw ==
    /\ kwTexts = <<>>
    /\ kwStage = "none"
    /\ kwFit = NoFit
    /\ kwSelected = <<>>
    /\ kwList = <<>>
    /\ kwOut = NoResult

\* extract_keywords(texts) up to the loop over the documents
ExtractKeywords ==
    /\ kwStage = "none"
    /\ \E texts \in Batches :
        LET n == Len(texts)
            clean_texts == [i \in 1..n |-> CleanOrEmpty(texts[i])]
            fit == fit_transform(clean_texts, Min(2, n))
        IN /\ kwTexts' = texts
           /\ IF NothingToExtract(texts)
              THEN /\ kwOut' = Returned([i \in 1..n |-> <<>>])
                   /\ kwStage' = "done"
                   /\ UNCHANGED kwFit
              ELSE IF fit.status = "raised"
              THEN /\ kwOut' = KeywordsOnFailure(n)
                   /\ kwStage' = "done"
                   /\ kwFit' = fit
              ELSE /\ kwFit' = fit
                   /\ kwStage' = "fitted"
                   /\ UNCHANGED kwOut
    /\ UNCHANGED <<kwSelected, kwList>>
    /\ UNCHANGED <<cleanVars, thinVars, simVars>>
    /\ UNCHANGED <<concVars, scoreVars, interpVars, featVars>>

\* one turn of the loop over dense_matrix; after the last row, the return
KeywordsOfDocument ==
    /\ kwStage = "fitted"
    /\ LET d == Len(kwList) + 1
           doc_vector == kwFit.matrix[d]
       IN \E tail \in ArgsortTails(doc_vector, DOMAIN doc_vector, TopN) :
            LET kept == KeptIndices(doc_vector, tail)
                keywords == [i \in 1..Len(kept) |-> kwFit.feature_names[kept[i]]]
                keywords_list == Append(kwList, JoinPipe(keywords))
            IN /\ kwSelected' = Append(kwSelected, kept)
               /\ kwList' = keywords_list
               /\ IF d = Len(kwTexts)
                  THEN /\ kwOut' = Returned(keywords_list)
                       /\ kwStage' = "done"
                  ELSE UNCHANGED <<kwOut, kwStage>>
    /\ UNCHANGED <<kwTexts, kwFit>>
    /\ UNCHANGED <<cleanVars, thinVars, simVars>>
    /\ UNCHANGED <<concVars, scoreVars, interpVars, featVars>>

NextKeywords == ExtractKeywords \/ KeywordsOfDocument

\* the process as it starts, with the tokenizer data in place
InitMore == InitClean /\ InitThin /\ InitSim /\ InitKw

Init ==
    /\ InitConc /\ InitScore /\ InitInterp /\ InitFeat /\ InitMore
    /\ punkt = "installed"

Next ==
    \E t \in Threads :
        \/ CallPredictQuality(t)
        \/ CallGenerateEmbeddings(t)
        \/ CallCalculateSimilarity(t)
        \/ CallExtractAllFeatures(t)
        \/ Lookup(t)
        \/ Acquire(t)
        \/ Recheck(t)
        \/ Load(t)
        \/ UsePredictQuality(t)
        \/ UseEmbeddingModel(t)
        \/ FinishWithoutEmbeddings(t)
        \/ Return(t)

Spec == Init /\ [][Next]_vars

\* the pure functions are exercised in a process whose models are in place
InitPure == Init /\ artifact = "present" /\ hub = "available"

\* as InitPure, with the tokenizer data in place or missing
InitFeatures ==
    /\ InitConc /\ InitScore /\ InitInterp /\ InitFeat /\ InitMore
    /\ artifact = "present" /\ hub = "available"

SpecScore == InitPure /\ [][NextScore]_vars

SpecInterp == InitPure /\ [][NextInterp]_vars

SpecFeat == InitFeatures /\ [][NextFeat]_vars

SpecClean == InitPure /\ [][NextClean]_vars

SpecThin == InitPure /\ [][NextThin]_vars

SpecSim == InitPure /\ [][NextSim]_vars

SpecKeywords == InitPure /\ [][NextKeywords]_vars

(***************************************************************************)
(* Properties of the classifier and of the cached models (under Spec).     *)
(***************************************************************************)
Done(t, o) == pc[t] = "done" /\ op[t] = o

\* C1: with the classifier artifact absent, load_quality_model yields no
\* model (None) and every finished call of predict_quality, the first and
\* all later ones, returned 'Unknown' and did not raise.
C1_AbsentArtifactAlwaysUnknown ==
    artifact = "absent" =>
        /\ cache["classifier"] \in {NotCached, None}
        /\ \A t \in Threads :
            /\ (op[t] = "predict_quality" /\ pc[t] = "use") => model[t] = None
            /\ Done(t, "predict_quality") => result[t] = Returned(Unknown)

\* two calls are over, both answered 'Unknown', the second from the cached None
C1_Witness ==
    /\ artifact = "absent"
    /\ calls >= 2
    /\ loads["classifier"] = 1
    /\ \A t \in Threads : Done(t, "predict_quality") /\ result[t] = Returned(Unknown)

\* C2: whenever the classifier artifact is unavailable, missing or corrupt,
\* a finished call of predict_quality returned 'Unknown' and did not raise.
C2_UnavailableArtifactDegrades ==
    artifact \in {"absent", "corrupt"} =>
        \A t \in Threads :
            Done(t, "predict_quality") => result[t] = Returned(Unknown)

\* C3: with the classifier loaded, a finished predict_quality returned
\* 'Unknown' when model.predict raised, and exactly the predicted label when
\* it did not; it never passed the exception on.
C3_PredictionMappedOrReturned ==
    \A t \in Threads :
        (Done(t, "predict_quality") /\ model[t].kind = "instance") =>
            /\ prediction[t].kind \in {"raise", "return"}
            /\ prediction[t].kind = "raise" => result[t] = Returned(Unknown)
            /\ prediction[t].kind = "return" =>
                   result[t] = Returned(prediction[t].value)

\* one call whose prediction raised and one whose prediction gave a label
C3_Witness ==
    \E t1, t2 \in Threads :
        /\ Done(t1, "predict_quality") /\ model[t1].kind = "instance"
        /\ prediction[t1].kind = "raise" /\ result[t1] = Returned(Unknown)
        /\ Done(t2, "predict_quality") /\ model[t2].kind = "instance"
        /\ prediction[t2] = Returned("High") /\ result[t2] = Returned("High")
        /\ vector[t2] = <<100, 0, 0, 0>>

\* C4: under any interleaving of the callers, each shared model is loaded at
\* most once; once loaded it stays in the cache, and every caller holds the
\* cached instance.
C4_LoadedAtMostOnce ==
    \A r \in Resources :
        /\ loads[r] <= 1
        /\ (loads[r] = 1) <=> (cache[r] # NotCached)
        /\ \A t \in Threads :
            (op[t] # "none" /\ ResourceOf(op[t]) = r /\ model[t] # NotCached) =>
                model[t] = cache[r]

\* both threads went through the embedding model, which was loaded once
C4_Witness ==
    /\ loads["embedder"] = 1
    /\ cache["embedder"].kind = "instance"
    /\ \A t \in Threads :
        /\ pc[t] = "done"
        /\ op[t] \in {"calculate_similarity", "extract_all_features"}
        /\ model[t] = cache["embedder"]
    /\ \E t1, t2 \in Threads : op[t1] # op[t2]

(***************************************************************************)
(* Properties of calculate_composite_score (under SpecScore).              *)
(***************************************************************************)
\* C5: for every feature dictionary (counts and average length >= 0, any
\* flesch_reading_ease, any field missing) the composite score is in [0, 100].
C5_ScoreWithinRange ==
    scoreStep # "none" => (0 <= scoreOut /\ scoreOut <= 100 * ScoreDen)

\* a dictionary with a negative flesch_reading_ease and a field missing was scored
C5_Witness ==
    /\ scoreStep = "scored"
    /\ "flesch_reading_ease" \in DOMAIN scoreIn
    /\ scoreIn["flesch_reading_ease"] < 0
    /\ "avg_word_length" \notin DOMAIN scoreIn
    /\ Get(scoreIn, "word_count", 0) > 0
    /\ scoreOut > 0

\* C6: raising one of the four fields, the other three held fixed, never
\* lowers the composite score.
C6_ScoreMonotone ==
    scoreStep = "raised" => scorePrevOut <= scoreOut

\* word_count was raised from its cap to above it, and the score stayed
C6_Witness ==
    /\ scoreStep = "raised"
    /\ Get(scorePrevIn, "word_count", 0) = 2000
    /\ Get(scoreIn, "word_count", 0) > 2000
    /\ scorePrevOut = scoreOut
    /\ scoreOut > 0

AtCaps ==
    [word_count |-> 2000, sentence_count |-> 50,
     flesch_reading_ease |-> 100 * Scale, avg_word_length |-> 6 * Scale]

AllZero ==
    [word_count |-> 0, sentence_count |-> 0,
     flesch_reading_ease |-> 0, avg_word_length |-> 0]

\* C7: the score is exactly 100 at the four caps (2000 words, 50 sentences,
\* flesch 100, average length 6) and exactly 0 for the all-zero dictionary;
\* each field alone earns its weight (30, 20, 40, 10) at its cap and half of
\* it at half the cap.
C7_ExactAtCapsAndZero ==
    scoreStep # "none" =>
        /\ scoreIn = AtCaps => scoreOut = 100 * ScoreDen
        /\ scoreIn = AllZero => scoreOut = 0
        /\ scoreIn = [word_count |-> 2000] => scoreOut = 30 * ScoreDen
        /\ scoreIn = [word_count |-> 1000] => 2 * scoreOut = 30 * ScoreDen
        /\ scoreIn = [flesch_reading_ease |-> 100 * Scale] => scoreOut = 40 * ScoreDen
        /\ scoreIn = [flesch_reading_ease |-> 50 * Scale] => 2 * scoreOut = 40 * ScoreDen
        /\ scoreIn = [sentence_count |-> 50] => scoreOut = 20 * ScoreDen
        /\ scoreIn = [sentence_count |-> 25] => 2 * scoreOut = 20 * ScoreDen
        /\ scoreIn = [avg_word_length |-> 6 * Scale] => scoreOut = 10 * ScoreDen
        /\ scoreIn = [avg_word_length |-> 3 * Scale] => 2 * scoreOut = 10 * ScoreDen

\* the dictionary of the four caps was reached from one without word_count
C7_Witness ==
    /\ scoreStep = "raised"
    /\ scoreIn = AtCaps
    /\ scoreOut = 100 * ScoreDen
    /\ Get(scorePrevIn, "word_count", 0) = 0
    /\ scorePrevOut = 70 * ScoreDen

(***************************************************************************)
(* Properties of get_quality_score_interpretation (under SpecInterp).      *)
(***************************************************************************)
\* the texts of a list of recommendations, without the values they cite
Texts(recs) == [i \in 1..Len(recs) |-> recs[i][1]]

\* C8: the recommendations are, in this order: at most one length message
\* (increase below 500 words, else expand below 1500), at most one
\* readability message (simplify below flesch 30, else improve below 50),
\* and, only for the label Low, the two Low messages, both and last.
C8_RecommendationOrder ==
    interpStep # "none" =>
        LET wc == Get(interpIn, "word_count", 0)
            fl == Get(interpIn, "flesch_reading_ease", 0)
            length == IF wc < 500 THEN <<MsgIncreaseLength(0)[1]>>
                      ELSE IF wc < 1500 THEN <<MsgExpand(0)[1]>>
                      ELSE <<>>
            readability == IF fl < 30 * Scale THEN <<MsgSimplify(0)[1]>>
                           ELSE IF fl < 50 * Scale THEN <<MsgImprove(0)[1]>>
                           ELSE <<>>
            low == IF interpQuality = "Low" THEN <<MsgReview[1], MsgFocus[1]>> ELSE <<>>
        IN Texts(interpOut.recommendations) = length \o readability \o low

\* word_count = 100, flesch = 20, label Low: the four messages
C8_Witness ==
    /\ interpStep # "none"
    /\ interpQuality = "Low"
    /\ interpIn = [word_count |-> 100, flesch_reading_ease |-> 20 * Scale]
    /\ interpOut.recommendations =
           << MsgIncreaseLength(100), MsgSimplify(20 * Scale), MsgReview, MsgFocus >>

\* C9: for the label Unknown the result is the Unknown template with the
\* recommendations the thresholds give; and two labels, neither of them Low,
\* get the same recommendations for the same dictionary.
C9_UnknownTemplateLabelIndependent ==
    /\ (interpStep # "none" /\ interpQuality = "Unknown") =>
        LET wc == Get(interpIn, "word_count", 0)
            fl == Get(interpIn, "flesch_reading_ease", 0)
            recs == interpOut.recommendations
        IN /\ interpOut.emoji = "white circle"
           /\ interpOut.message = "Unable to assess quality"
           /\ interpOut.description = "Quality assessment unavailable."
           /\ Len(recs) = (IF wc < 1500 THEN 1 ELSE 0) + (IF fl < 50 * Scale THEN 1 ELSE 0)
           /\ \A i \in 1..Len(recs) : Len(recs[i]) = 2
    /\ (interpStep = "relabelled" /\ interpQuality # "Low" /\ interpPrevQuality # "Low") =>
        interpOut.recommendations = interpPrevOut.recommendations

\* a dictionary interpreted as High and then as Unknown, with two recommendations
C9_Witness ==
    /\ interpStep = "relabelled"
    /\ interpPrevQuality = "High"
    /\ interpQuality = "Unknown"
    /\ interpOut.message = "Unable to assess quality"
    /\ Len(interpOut.recommendations) = 2
    /\ interpOut.recommendations = interpPrevOut.recommendations

(***************************************************************************)
(* Properties of extract_basic_features (under SpecFeat).                  *)
(***************************************************************************)
WhitespaceOnly(s) == \A i \in 1..Len(s) : IsSpace(s[i])

\* C10: a result with word_count = 0 has sentence_count, avg_word_length and
\* flesch_reading_ease 0; an empty or whitespace-only text gives the all-zero
\* result without raising, and neither the tokenizer nor the readability
\* formula is applied to it.
C10_ZeroWordsAllZero ==
    /\ (featOut.kind = "return" /\ featOut.value.word_count = 0) =>
        /\ featOut.value.sentence_count = 0
        /\ featOut.value.avg_word_length = 0
        /\ featOut.value.flesch_reading_ease = 0
    /\ (featOut.kind # "none" /\ featText.type = "str" /\ WhitespaceOnly(featText.chars)) =>
        /\ featOut = Returned(AllZero)
        /\ featApplied = {}

\* a text of whitespace only was given while the tokenizer data is missing
C10_Witness ==
    /\ featText = StrValue(<<" ", "\t", "\n">>)
    /\ punkt = "missing"
    /\ featOut = Returned(AllZero)
    /\ featApplied = {}

(***************************************************************************)
(* C11: extract_keywords never raises: whatever the batch (no documents,   *)
(* only empty documents, documents on which fitting fails), it returns one *)
(* string per document, and each is empty when fitting failed.             *)
(***************************************************************************)
C11_KeywordsNeverRaise ==
    /\ kwOut.kind # "raise"
    /\ kwStage = "done" =>
        /\ kwOut.kind = "return"
        /\ Len(kwOut.value) = Len(kwTexts)
        /\ (kwFit.status = "raised" \/ NothingToExtract(kwTexts)) =>
              \A i \in 1..Len(kwTexts) : kwOut.value[i] = <<>>

\* two documents with no term in common: pruning by min_df leaves nothing
C11_Witness ==
    /\ kwStage = "done"
    /\ kwFit.status = "raised"
    /\ kwTexts = <<StrValue(Sentence(<<TermAD>>)),
                   StrValue(Sentence(<<TermAB, TermAB, TermAC>>))>>
    /\ kwOut = Returned(<<<<>>, <<>>>>)

(***************************************************************************)
(* C12 as stated: the interpretation has the fields label, emoji, message, *)
(* description and recommendations, label being the quality label given.   *)
(***************************************************************************)
C12_HasLabelField ==
    interpStep # "none" =>
        /\ DOMAIN interpOut = {"label", "emoji", "message", "description",
                               "recommendations"}
        /\ interpOut.label = interpQuality

(***************************************************************************)
(* C12, amended: the interpretation has exactly the fields emoji, message, *)
(* description and recommendations, and no label; the first three are      *)
(* those of the given label's row of the table, or of the Unknown row for  *)
(* a label the table does not hold.                                        *)
(***************************************************************************)
C12_FourFieldsOfTheRow ==
    interpStep # "none" =>
        LET row == IF interpQuality \in {"High", "Medium", "Low", "Unknown"}
                   THEN interpQuality ELSE "Unknown"
        IN /\ DOMAIN interpOut = {"emoji", "message", "description",
                                  "recommendations"}
           /\ interpOut.emoji = interpretations[row].emoji
           /\ interpOut.message = interpretations[row].message
           /\ interpOut.description = interpretations[row].description

C12_Witness ==
    /\ interpStep = "fresh"
    /\ interpQuality = "High"
    /\ interpOut.emoji = "green circle"
    /\ interpOut.message = "Excellent content quality!"
    /\ "label" \notin DOMAIN interpOut

(***************************************************************************)
(* C13: what clean_text returns has no uppercase letter, its only          *)
(* whitespace is single spaces between other characters, and cleaning it   *)
(* again gives it back unchanged.                                          *)
(***************************************************************************)
C13_CleanTextNormalised ==
    /\ cleanStep # "none" =>
          \A i \in 1..Len(cleanOut) :
              /\ LowerChar(cleanOut[i]) = cleanOut[i]
              /\ IsSpace(cleanOut[i]) =>
                    /\ cleanOut[i] = " "
                    /\ 1 < i /\ i < Len(cleanOut)
                    /\ ~IsSpace(cleanOut[i + 1])
    /\ cleanStep = "recleaned" => cleanAgain = cleanOut

\* an uppercase letter and a run of a tab and a newline inside the text
C13_Witness ==
    /\ cleanStep = "recleaned"
    /\ cleanIn = StrValue(<<"B", "\t", "\n", "a">>)
    /\ cleanOut = <<"b", " ", "a">>
    /\ cleanAgain = <<"b", " ", "a">>

(***************************************************************************)
(* C14: is_thin_content is true exactly when the word count is below the   *)
(* threshold, 500 when none is given: true for 499 words, false for 500.   *)
(***************************************************************************)
C14_ThinBelowThreshold ==
    thinArgs # NoFeatures =>
        /\ thinOut = (thinArgs.word_count <
                        (IF "threshold" \in DOMAIN thinArgs
                         THEN thinArgs.threshold ELSE 500))
        /\ thinArgs = [word_count |-> 499] => thinOut
        /\ thinArgs = [word_count |-> 500] => ~thinOut

C14_Witness ==
    /\ thinArgs = [word_count |-> 500]
    /\ thinOut = FALSE

(***************************************************************************)
(* C15: comparing two texts in either order gives the same similarity, and *)
(* what the one model was given to encode are the two normalized texts.    *)
(***************************************************************************)
C15_SimilaritySymmetric ==
    /\ simStep = "swapped" => simOut = simPrevOut
    /\ simStep # "none" =>
        /\ DOMAIN encoded = {CleanOrEmpty(simTexts[1]), CleanOrEmpty(simTexts[2])}
        /\ \A c \in DOMAIN encoded : c = Strip(CollapseWhitespace(Lower(c)))

\* two texts whose vectors are 45 degrees apart
C15_Witness ==
    /\ simStep = "swapped"
    /\ simTexts = <<StrValue(<<"B", " ">>), StrValue(<<"a">>)>>
    /\ DOMAIN encoded = {<<"a">>, <<"b">>}
    /\ simOut = <<1, 2>>
    /\ simPrevOut = <<1, 2>>

\* the indices of positive weight, by weight descending and, among equal
\* weights, by index ascending
RECURSIVE StableByIndex(_, _, _)
StableByIndex(doc_vector, indices, top_n) ==
    IF top_n = 0 \/ indices = {} THEN <<>>
    ELSE LET first == CHOOSE i \in indices :
                        \A k \in indices :
                            \/ doc_vector[k] < doc_vector[i]
                            \/ (doc_vector[k] = doc_vector[i] /\ i <= k)
         IN <<first>> \o StableByIndex(doc_vector, indices \ {first}, top_n - 1)

Positives(doc_vector) == {i \in DOMAIN doc_vector : doc_vector[i] > 0}

(***************************************************************************)
(* C16 as stated: the keywords of a document are its at most 5 terms of    *)
(* highest positive weight, by weight descending, terms of equal weight    *)
(* being taken and listed in the order of their feature indices.           *)
(***************************************************************************)
C16_TiesByFeatureIndex ==
    \A d \in 1..Len(kwSelected) :
        kwSelected[d] = StableByIndex(kwFit.matrix[d], Positives(kwFit.matrix[d]), 5)

(***************************************************************************)
(* C16, amended: the keywords of a document are at most 5 distinct terms,  *)
(* all of positive weight, as many as there are up to 5, in non-increasing *)
(* order of weight, no term left out outweighing a term taken, joined with *)
(* '|'; which of several terms of equal weight are taken, and in which     *)
(* order they are listed, is not determined.                               *)
(***************************************************************************)
C16_TopWeightsSelected ==
    /\ Len(kwList) = Len(kwSelected)
    /\ \A d \in 1..Len(kwSelected) :
        LET doc_vector == kwFit.matrix[d]
            taken == kwSelected[d]
        IN /\ Len(taken) = Min(5, Cardinality(Positives(doc_vector)))
           /\ \A i \in 1..Len(taken) : doc_vector[taken[i]] > 0
           /\ \A i, j \in 1..Len(taken) :
                i < j => /\ taken[i] # taken[j]
                         /\ doc_vector[taken[i]] >= doc_vector[taken[j]]
           /\ \A k \in DOMAIN doc_vector \ Range(taken) :
                \A i \in 1..Len(taken) : doc_vector[k] <= doc_vector[taken[i]]
           /\ kwList[d] = JoinPipe([i \in 1..Len(taken) |-> kwFit.feature_names[taken[i]]])
    /\ (kwStage = "done" /\ kwFit.status = "ok") => kwOut = Returned(kwList)

\* six terms of weights 3, 3, 2, 2, 1, 1: five are taken, the last of them
\* one of two of equal weight, and not in the order of the indices
C16_Witness ==
    /\ kwStage = "done"
    /\ Len(kwTexts) = 1
    /\ kwFit.feature_names = <<TermAB, TermAC, TermAD, TermBA, TermBB, TermCA>>
    /\ kwSelected = << <<2, 1, 4, 3, 6>> >>
    /\ kwOut = Returned(<< <<"a", "c", "|", "a", "b", "|", "b", "a", "|",
                             "a", "d", "|", "c", "a">> >>)

====
